---- MODULE Spec2Model ----
(***************************************************************************)
(* Model of bezier's symbolic helper (src/python/bezier/_symbolic.py) and  *)
(* of the documentation rewrite script (scripts/rewrite_package_rst.py).   *)
(*                                                                         *)
(* SymPy expressions are modelled by their value as polynomials with       *)
(* integer coefficients in the five symbols s, t, x, y, z: a polynomial is *)
(* a function from exponent tuples to non-zero coefficients, which is a    *)
(* canonical form, so simplify() and factor() (which rewrite an expression *)
(* without changing its value) leave the modelled value unchanged.  Node   *)
(* arrays hold integer-valued floats, whose exact Rational is the integer. *)
(***************************************************************************)
EXTENDS Integers, Sequences, FiniteSets, TLC

\* ------------------------------------------------------------------ bounds

\* Largest degree handed to curve_weights / surface_weights.
MaxDegree == 3
\* Largest degree of the curves whose node arrays are enumerated.
MaxCurveDegree == 2

\* ------------------------------------------------------------------- state

VARIABLES
    sympy,      \* the module global: "sympy" when the import succeeded, else "None"
    input,      \* the caller's data: a node array and a degree
    last,       \* the most recent call of a public function and its outcome
    bezier,     \* rewrite script: the bezier package, if its import succeeded
    file,       \* rewrite script: the contents of docs/python/reference/bezier.rst
    run         \* rewrite script: the outcome of the most recent main()

symbolicVars == <<sympy, input, last>>
rewriteVars == <<bezier, file, run>>
vars == <<sympy, input, last, bezier, file, run>>

\* ----------------------------------------------------------------- symbols

\* sympy.Symbol("s"), "t", "x", "y", "z": a symbol is identified by its name.
SymS == 1
SymT == 2
SymX == 3
SymY == 4
SymZ == 5
NSyms == 5

\* ------------------------------------------------- polynomial arithmetic

MonoOne == <<0, 0, 0, 0, 0>>

MonoMul(a, b) == <<a[1] + b[1], a[2] + b[2], a[3] + b[3], a[4] + b[4], a[5] + b[5]>>

MonoDivides(a, m) == \A i \in 1..NSyms : a[i] <= m[i]

MonoDiv(m, a) == <<m[1] - a[1], m[2] - a[2], m[3] - a[3], m[4] - a[4], m[5] - a[5]>>

MonoVar(v) == [MonoOne EXCEPT ![v] = 1]

\* Drop the zero coefficients: the canonical form of a polynomial.
Trim(f) == [m \in {n \in DOMAIN f : f[n] # 0} |-> f[m]]

PZero == [m \in {} |-> 0]

PConst(c) == Trim([m \in {MonoOne} |-> c])

PSym(v) == [m \in {MonoVar(v)} |-> 1]

Coef(p, m) == IF m \in DOMAIN p THEN p[m] ELSE 0

PAdd(p, q) == Trim([m \in DOMAIN p \cup DOMAIN q |-> Coef(p, m) + Coef(q, m)])

PNeg(p) == [m \in DOMAIN p |-> 0 - p[m]]

PSub(p, q) == PAdd(p, PNeg(q))

PScale(c, p) == Trim([m \in DOMAIN p |-> c * p[m]])

RECURSIVE SumOver(_, _)
SumOver(S, f) ==
    IF S = {} THEN 0
    ELSE LET a == CHOOSE a \in S : TRUE
         IN  f[a] + SumOver(S \ {a}, f)

PMul(p, q) ==
    LET D == {MonoMul(a, b) : a \in DOMAIN p, b \in DOMAIN q}
        term(m) == LET A == {a \in DOMAIN p : MonoDivides(a, m) /\ MonoDiv(m, a) \in DOMAIN q}
                   IN  SumOver(A, [a \in A |-> p[a] * q[MonoDiv(m, a)]])
    IN  Trim([m \in D |-> term(m)])

RECURSIVE PPow(_, _)
PPow(p, n) == IF n = 0 THEN PConst(1) ELSE PMul(p, PPow(p, n - 1))

RECURSIVE IntPow(_, _)
IntPow(b, n) == IF n = 0 THEN 1 ELSE b * IntPow(b, n - 1)

\* The value of p with each symbol v replaced by the integer env[v].
Eval(p, env) ==
    LET D == DOMAIN p
        val(m) == p[m] * IntPow(env[1], m[1]) * IntPow(env[2], m[2]) * IntPow(env[3], m[3])
                       * IntPow(env[4], m[4]) * IntPow(env[5], m[5])
    IN  SumOver(D, [m \in D |-> val(m)])

\* sympy.binomial(n, k) for 0 <= k <= n.
RECURSIVE binomial(_, _)
binomial(n, k) == IF k = 0 THEN 1 ELSE (binomial(n, k - 1) * (n - k + 1)) \div k

\* ---------------------------------------------------------------- resultant

\* The degree of p in the symbol v (0 for a polynomial free of v).
DegreeIn(p, v) ==
    IF DOMAIN p = {} THEN 0
    ELSE CHOOSE d \in {m[v] : m \in DOMAIN p} : \A m \in DOMAIN p : m[v] <= d

\* The coefficient of v ** k in p, a polynomial in the other symbols.
CoeffIn(p, v, k) ==
    LET D == {m \in DOMAIN p : m[v] = k}
    IN  [m \in {[n EXCEPT ![v] = 0] : n \in D} |-> p[[m EXCEPT ![v] = k]]]

\* The Sylvester matrix of f (degree n) and g (degree m) in v.
Sylvester(f, g, v) ==
    LET n == DegreeIn(f, v)
        m == DegreeIn(g, v)
    IN  [i \in 1..(n + m) |->
            [j \in 1..(n + m) |->
                IF i <= m
                THEN IF j - i >= 0 /\ j - i <= n THEN CoeffIn(f, v, n - (j - i)) ELSE PZero
                ELSE IF j - (i - m) >= 0 /\ j - (i - m) <= m
                     THEN CoeffIn(g, v, m - (j - (i - m))) ELSE PZero]]

\* M without its row i and its first column.
Minor(M, i) ==
    [r \in 1..(Len(M) - 1) |->
        LET row == M[IF r < i THEN r ELSE r + 1]
        IN  [c \in 1..(Len(M) - 1) |-> row[c + 1]]]

RECURSIVE Det(_)
RECURSIVE DetFrom(_, _)
\* The cofactors of the first column from row i on.
DetFrom(M, i) ==
    IF i > Len(M) THEN PZero
    ELSE LET rest == DetFrom(M, i + 1)
         IN  IF M[i][1] = PZero THEN rest
             ELSE LET c == PMul(M[i][1], Det(Minor(M, i)))
                  IN  IF i % 2 = 1 THEN PAdd(c, rest) ELSE PSub(rest, c)

Det(M) == IF Len(M) = 0 THEN PConst(1) ELSE DetFrom(M, 1)

\* sympy.resultant(f, g, v): zero when f or g is zero, else the resultant of f
\* and g as polynomials in v, the determinant of their Sylvester matrix.
resultant(f, g, v) ==
    IF f = PZero \/ g = PZero THEN PZero ELSE Det(Sylvester(f, g, v))

\* ---------------------------------------------------------------- matrices

\* A sympy.Matrix is the sequence of its rows; every matrix here has a row.
NumRows(M) == Len(M)
NumCols(M) == Len(M[1])

RECURSIVE PSumSeq(_)
PSumSeq(ps) == IF Len(ps) = 0 THEN PZero ELSE PAdd(ps[1], PSumSeq(Tail(ps)))

\* The matrix product A * B of matrices whose inner sizes agree.
MatMul(A, B) ==
    [i \in 1..NumRows(A) |->
        [j \in 1..NumCols(B) |->
            PSumSeq([k \in 1..NumCols(A) |-> PMul(A[i][k], B[k][j])])]]

\* Iterating a sympy.Matrix yields its entries row by row.
RECURSIVE Entries(_)
Entries(M) == IF Len(M) = 0 THEN <<>> ELSE M[1] \o Entries(Tail(M))

\* ---------------------------------------------------------------- outcomes

\* The outcome of a call: what it returned or raised, and the trace of the
\* function bodies entered and returned from while it ran.
Return(v, tr) == [kind |-> "return", value |-> v, trace |-> tr]

Raise(error, what, tr) == [kind |-> error, value |-> what, trace |-> tr]

Returned(o) == o.kind = "return"

Enter(name) == <<"enter", name>>

Leave(name) == <<"return", name>>

\* A require_sympy that never looks at the global.
require_sympy_unchecked(name, wrapped) ==
    LET o == wrapped
    IN  [o EXCEPT !.trace = <<Enter(name)>> \o o.trace
                            \o (IF Returned(o) THEN <<Leave(name)>> ELSE <<>>)]

\* require_sympy: ensure_sympy raises OSError when the global sympy is None,
\* and otherwise runs the wrapped function.
require_sympy(name, wrapped) ==
    IF sympy = "None"
    THEN Raise("OSError", <<"This function requires SymPy.">>, <<>>)
    ELSE LET o == wrapped
         IN  [o EXCEPT !.trace = <<Enter(name)>> \o o.trace
                                 \o (IF Returned(o) THEN <<Leave(name)>> ELSE <<>>)]

\* ------------------------------------------------------------- to_symbolic

\* A to_symbolic whose error reports the rank it wants, not the rank it got.
to_symbolic_wanted_rank(nodes) ==
    IF nodes.ndim # 2
    THEN Raise("ValueError", <<"Nodes must be 2-dimensional, not", 2>>, <<>>)
    ELSE Return([i \in 1..Len(nodes.rows) |->
                    [j \in 1..Len(nodes.rows[i]) |-> PConst(nodes.rows[i][j])]], <<>>)

to_symbolic_wrapped(nodes) ==
    IF nodes.ndim # 2
    THEN Raise("ValueError", <<"Nodes must be 2-dimensional, not", nodes.ndim>>, <<>>)
    ELSE Return([i \in 1..Len(nodes.rows) |->
                    [j \in 1..Len(nodes.rows[i]) |-> PConst(nodes.rows[i][j])]], <<>>)

to_symbolic(nodes) == require_sympy("to_symbolic", to_symbolic_wrapped(nodes))

\* ------------------------------------------------------------------ curves

\* A curve_weights with the two exponents exchanged.
curve_weights_reversed(degree, s) ==
    Return([r \in 1..(degree + 1) |->
               LET k == r - 1
               IN  <<PScale(binomial(degree, k),
                            PMul(PPow(PSym(s), degree - k),
                                 PPow(PSub(PConst(1), PSym(s)), k)))>>], <<>>)

\* The (degree + 1) x 1 matrix of the entries
\* binomial(degree, k) * s ** k * (1 - s) ** (degree - k), k in range(degree + 1).
curve_weights_wrapped(degree, s) ==
    Return([r \in 1..(degree + 1) |->
               LET k == r - 1
               IN  <<PScale(binomial(degree, k),
                            PMul(PPow(PSym(s), k),
                                 PPow(PSub(PConst(1), PSym(s)), degree - k)))>>], <<>>)

curve_weights(degree, s) == require_sympy("curve_weights", curve_weights_wrapped(degree, s))

\* nodes_sym * weights: sympy raises ShapeError unless the sizes agree; then
\* simplify, factor and reshape keep every entry's value and the shape.
Assemble(syms, nodes_sym, weights) ==
    IF ~Returned(nodes_sym) THEN nodes_sym
    ELSE IF ~Returned(weights)
         THEN [weights EXCEPT !.trace = nodes_sym.trace \o weights.trace]
    ELSE IF NumCols(nodes_sym.value) # NumRows(weights.value)
         THEN Raise("ShapeError", <<"Matrix size mismatch">>, nodes_sym.trace \o weights.trace)
    ELSE Return(syms \o <<MatMul(nodes_sym.value, weights.value)>>,
                nodes_sym.trace \o weights.trace)

curve_as_polynomial_wrapped(nodes, degree) ==
    Assemble(<<SymS>>, to_symbolic(nodes), curve_weights(degree, SymS))

curve_as_polynomial(nodes, degree) ==
    require_sympy("curve_as_polynomial", curve_as_polynomial_wrapped(nodes, degree))

implicitize_2d_wrapped(x_fn, y_fn, s) ==
    Return(resultant(PSub(x_fn, PSym(SymX)), PSub(y_fn, PSym(SymY)), s), <<>>)

implicitize_2d(x_fn, y_fn, s) ==
    require_sympy("implicitize_2d", implicitize_2d_wrapped(x_fn, y_fn, s))

\* Unpacking a sequence into n names raises ValueError unless it has n entries.
UnpackError(n, got, trace) ==
    Raise("ValueError", <<"unpack", n, got>>, trace)

\* An implicitize_curve that takes the first two components, however many
\* there are.
implicitize_curve_first_two(nodes, degree) ==
    LET poly == curve_as_polynomial(nodes, degree)
    IN  IF ~Returned(poly) THEN poly
        ELSE LET s == poly.value[1]
                 fns == Entries(poly.value[2])
             IN  IF Len(fns) < 2 THEN UnpackError(2, Len(fns), poly.trace)
                 ELSE LET f == implicitize_2d(fns[1], fns[2], s)
                      IN  [f EXCEPT !.trace = poly.trace \o f.trace]

\* An implicitize_curve that hands the two components over in the other order.
implicitize_curve_swapped(nodes, degree) ==
    LET poly == curve_as_polynomial(nodes, degree)
    IN  IF ~Returned(poly) THEN poly
        ELSE LET s == poly.value[1]
                 fns == Entries(poly.value[2])
             IN  IF Len(fns) # 2 THEN UnpackError(2, Len(fns), poly.trace)
                 ELSE LET f == implicitize_2d(fns[2], fns[1], s)
                      IN  [f EXCEPT !.trace = poly.trace \o f.trace]

implicitize_curve_wrapped(nodes, degree) ==
    LET poly == curve_as_polynomial(nodes, degree)
    IN  IF ~Returned(poly) THEN poly
        ELSE LET s == poly.value[1]
                 fns == Entries(poly.value[2])
             IN  IF Len(fns) # 2 THEN UnpackError(2, Len(fns), poly.trace)
                 ELSE LET f == implicitize_2d(fns[1], fns[2], s)
                      IN  [f EXCEPT !.trace = poly.trace \o f.trace]

implicitize_curve(nodes, degree) ==
    require_sympy("implicitize_curve", implicitize_curve_wrapped(nodes, degree))

\* ---------------------------------------------------------------- surfaces

\* An inner loop that raises lambda2 to k and lambda3 to j.
SurfaceInnerExchanged(degree, k, s, t) ==
    LET lambda1 == PSub(PSub(PConst(1), PSym(s)), PSym(t))
        lambda2 == PSym(s)
        lambda3 == PSym(t)
        coeff_k == binomial(degree, k)
    IN  [n \in 1..(degree - k + 1) |->
            LET j == n - 1
                i == degree - j - k
                coeff == coeff_k * binomial(degree - k, j)
            IN  PScale(coeff, PMul(PMul(PPow(lambda1, i), PPow(lambda2, k)),
                                   PPow(lambda3, j)))]

\* The inner loop of surface_weights: for j in range(degree - k + 1), with
\* i = degree - j - k, the value coeff * lambda1 ** i * lambda2 ** j * lambda3 ** k.
SurfaceInner(degree, k, s, t) ==
    LET lambda1 == PSub(PSub(PConst(1), PSym(s)), PSym(t))
        lambda2 == PSym(s)
        lambda3 == PSym(t)
        coeff_k == binomial(degree, k)
    IN  [n \in 1..(degree - k + 1) |->
            LET j == n - 1
                i == degree - j - k
                coeff == coeff_k * binomial(degree - k, j)
            IN  PScale(coeff, PMul(PMul(PPow(lambda1, i), PPow(lambda2, j)),
                                   PPow(lambda3, k)))]

\* An outer loop over range(degree).
RECURSIVE SurfaceValuesShort(_, _, _, _)
SurfaceValuesShort(degree, k, s, t) ==
    IF k >= degree THEN <<>>
    ELSE SurfaceInner(degree, k, s, t) \o SurfaceValuesShort(degree, k + 1, s, t)

\* The outer loop of surface_weights: for k in range(degree + 1), appending.
RECURSIVE SurfaceValues(_, _, _, _)
SurfaceValues(degree, k, s, t) ==
    IF k > degree THEN <<>>
    ELSE SurfaceInner(degree, k, s, t) \o SurfaceValues(degree, k + 1, s, t)

surface_weights_wrapped(degree, s, t) ==
    LET values == SurfaceValues(degree, 0, s, t)
    IN  Return([r \in 1..Len(values) |-> <<values[r]>>], <<>>)

surface_weights(degree, s, t) ==
    require_sympy("surface_weights", surface_weights_wrapped(degree, s, t))

surface_as_polynomial_wrapped(nodes, degree) ==
    Assemble(<<SymS, SymT>>, to_symbolic(nodes), surface_weights(degree, SymS, SymT))

surface_as_polynomial(nodes, degree) ==
    require_sympy("surface_as_polynomial", surface_as_polynomial_wrapped(nodes, degree))

implicitize_3d_wrapped(x_fn, y_fn, z_fn, s, t) ==
    LET f_xy == resultant(PSub(x_fn, PSym(SymX)), PSub(y_fn, PSym(SymY)), s)
        f_yz == resultant(PSub(y_fn, PSym(SymX)), PSub(z_fn, PSym(SymZ)), s)
    IN  Return(resultant(f_xy, f_yz, t), <<>>)

implicitize_3d(x_fn, y_fn, z_fn, s, t) ==
    require_sympy("implicitize_3d", implicitize_3d_wrapped(x_fn, y_fn, z_fn, s, t))

implicitize_surface_wrapped(nodes, degree) ==
    LET poly == surface_as_polynomial(nodes, degree)
    IN  IF ~Returned(poly) THEN poly
        ELSE LET s == poly.value[1]
                 t == poly.value[2]
                 fns == Entries(poly.value[3])
             IN  IF Len(fns) # 3 THEN UnpackError(3, Len(fns), poly.trace)
                 ELSE LET f == implicitize_3d(fns[1], fns[2], fns[3], s, t)
                      IN  [f EXCEPT !.trace = poly.trace \o f.trace]

implicitize_surface(nodes, degree) ==
    require_sympy("implicitize_surface", implicitize_surface_wrapped(nodes, degree))

\* ------------------------------------------------------------------ inputs

\* A numpy.ndarray: its rank and, for a rank-2 array, its rows (the code reads
\* nothing else of an array of another rank).
Array(rank, data) == [ndim |-> rank, rows |-> data]

\* The control points curves are built from.
Points2 == {<<0, 0>>, <<1, 2>>, <<2, 1>>}

\* The 2 x c arrays whose columns are points of Points2.
CurveArrays(c) ==
    {Array(2, [i \in 1..2 |-> [j \in 1..c |-> cols[j][i]]]) : cols \in [1..c -> Points2]}

\* The 1 x c arrays of zeros and ones.
LineArrays(c) == {Array(2, <<row>>) : row \in [1..c -> {0, 1}]}

\* 3-row arrays: surfaces of degree 0, 1 and 2 and a space curve.
SpaceArrays ==
    { Array(2, <<<<1>>, <<2>>, <<3>>>>),
      Array(2, <<<<0, 1>>, <<0, 2>>, <<0, 3>>>>),
      Array(2, <<<<0, 1, 0>>, <<0, 1, 1>>, <<0, 1, 2>>>>),
      Array(2, <<<<0, 1, 0>>, <<0, 0, 1>>, <<0, 0, 0>>>>),
      Array(2, <<<<0, 1, 0>>, <<0, 1, 0>>, <<0, 0, 1>>>>),
      Array(2, <<<<0, 1, 2, 0, 1, 0>>, <<0, 0, 0, 1, 1, 2>>, <<0, 0, 1, 0, 0, 1>>>>) }

\* Arrays of rank 0, 1 and 3.
OtherRankArrays == {Array(0, <<>>), Array(1, <<>>), Array(3, <<>>)}

NodeArrays ==
    OtherRankArrays \cup SpaceArrays
    \cup UNION {CurveArrays(c) \cup LineArrays(c) : c \in 1..(MaxCurveDegree + 1)}

\* The symbols a caller passes as parameters, and the plain numbers it passes
\* as coordinate functions.
ParamSyms == {SymS, SymT}
Numbers == {0, 1}

\* ------------------------------------------------------------------ actions

NoOutcome == [kind |-> "none", value |-> <<>>, trace |-> <<>>]

NoCall == [op |-> "none", args |-> <<>>, from |-> "caller", outcome |-> NoOutcome]

Call(name, arguments, origin, o) ==
    [op |-> name, args |-> arguments, from |-> origin, outcome |-> o]

\* The caller calls op; the module keeps no state, so only `last` changes.
Calls(name, arguments, origin, o) ==
    /\ last' = Call(name, arguments, origin, o)
    /\ UNCHANGED <<sympy, input, bezier, file, run>>

ToSymbolic == Calls("to_symbolic", <<input.nodes>>, "caller", to_symbolic(input.nodes))

CurveWeights ==
    \E s \in ParamSyms :
        Calls("curve_weights", <<input.degree, s>>, "caller", curve_weights(input.degree, s))

CurveAsPolynomial ==
    Calls("curve_as_polynomial", <<input.nodes, input.degree>>, "caller",
          curve_as_polynomial(input.nodes, input.degree))

\* implicitize_2d on plain numbers, or on the two components and the symbol
\* that curve_as_polynomial has just returned.
Implicitize2d ==
    \/ \E a \in Numbers, b \in Numbers :
          Calls("implicitize_2d", <<PConst(a), PConst(b), SymS>>, "caller",
                implicitize_2d(PConst(a), PConst(b), SymS))
    \/ /\ last.op = "curve_as_polynomial"
       /\ Returned(last.outcome)
       /\ Len(Entries(last.outcome.value[2])) = 2
       /\ LET fns == Entries(last.outcome.value[2])
              s == last.outcome.value[1]
          IN  Calls("implicitize_2d", <<fns[1], fns[2], s>>, "curve_as_polynomial",
                    implicitize_2d(fns[1], fns[2], s))

ImplicitizeCurve ==
    Calls("implicitize_curve", <<input.nodes, input.degree>>, "caller",
          implicitize_curve(input.nodes, input.degree))

SurfaceWeights ==
    \E s \in ParamSyms, t \in ParamSyms :
        /\ s # t
        /\ Calls("surface_weights", <<input.degree, s, t>>, "caller",
                 surface_weights(input.degree, s, t))

SurfaceAsPolynomial ==
    Calls("surface_as_polynomial", <<input.nodes, input.degree>>, "caller",
          surface_as_polynomial(input.nodes, input.degree))

Implicitize3d ==
    \/ \E a \in Numbers, b \in Numbers, c \in Numbers :
          Calls("implicitize_3d", <<PConst(a), PConst(b), PConst(c), SymS, SymT>>, "caller",
                implicitize_3d(PConst(a), PConst(b), PConst(c), SymS, SymT))
    \/ /\ last.op = "surface_as_polynomial"
       /\ Returned(last.outcome)
       /\ Len(Entries(last.outcome.value[3])) = 3
       /\ LET fns == Entries(last.outcome.value[3])
              s == last.outcome.value[1]
              t == last.outcome.value[2]
          IN  Calls("implicitize_3d", <<fns[1], fns[2], fns[3], s, t>>,
                    "surface_as_polynomial", implicitize_3d(fns[1], fns[2], fns[3], s, t))

ImplicitizeSurface ==
    Calls("implicitize_surface", <<input.nodes, input.degree>>, "caller",
          implicitize_surface(input.nodes, input.degree))

\* The script's global bezier when the import failed (None), and before any
\* run of main().
NoPackage == [imported |-> FALSE, dir |-> <<>>, all |-> <<>>]

NoRun == [kind |-> "none", written |-> FALSE]

Init ==
    /\ sympy \in {"sympy", "None"}
    /\ input \in [nodes : NodeArrays, degree : 0..MaxDegree]
    /\ last = NoCall
    /\ bezier = NoPackage
    /\ file = ""
    /\ run = NoRun

Next ==
    \/ ToSymbolic
    \/ CurveWeights
    \/ CurveAsPolynomial
    \/ Implicitize2d
    \/ ImplicitizeCurve
    \/ SurfaceWeights
    \/ SurfaceAsPolynomial
    \/ Implicitize3d
    \/ ImplicitizeSurface

Spec == Init /\ [][Next]_vars

\* ------------------------------------------------------- engine guard (C1)

Available == sympy = "sympy"

PublicOps ==
    {"to_symbolic", "curve_weights", "curve_as_polynomial", "implicitize_2d",
     "implicitize_curve", "surface_weights", "surface_as_polynomial",
     "implicitize_3d", "implicitize_surface"}

\* C1: with the engine unavailable, every call of a public operation raises
\* the engine-unavailable error (OSError) and nothing else happens: no
\* function body is entered (no validation, no computation), no value is
\* returned and the module global is as it was.  In particular to_symbolic on
\* an array of rank other than 2 raises OSError, not ValueError.
C1_EngineUnavailable ==
    (last.op \in PublicOps /\ ~Available) =>
        /\ last.outcome.kind = "OSError"
        /\ last.outcome.value = <<"This function requires SymPy.">>
        /\ last.outcome.trace = <<>>

C1_Witness ==
    /\ ~Available
    /\ last.op = "to_symbolic"
    /\ input.nodes.ndim # 2
    /\ last.outcome.kind = "OSError"

\* ------------------------------------------------------- invalid shape (C7)

InvalidShape(nodes) ==
    Raise("ValueError", <<"Nodes must be 2-dimensional, not", nodes.ndim>>, <<>>)

SameError(o, e) == o.kind = e.kind /\ o.value = e.value

NodeOps ==
    {"to_symbolic", "curve_as_polynomial", "surface_as_polynomial",
     "implicitize_curve", "implicitize_surface"}

\* C7: with the engine available, to_symbolic raises the invalid-shape error
\* (ValueError) carrying the actual rank exactly when the array's rank is not
\* 2, and for a rank-2 array returns a matrix of the array's shape; the same
\* error, unchanged, is the outcome of curve_as_polynomial,
\* surface_as_polynomial, implicitize_curve and implicitize_surface on an
\* array of rank other than 2, and they raise no such error on a rank-2 array.
C7_InvalidShape ==
    (last.op \in NodeOps /\ Available) =>
        LET nodes == last.args[1]
            o == last.outcome
        IN  /\ nodes.ndim # 2 => SameError(o, InvalidShape(nodes))
            /\ nodes.ndim = 2 => ~(o.kind = "ValueError" /\ o.value[1] # "unpack")
            /\ (nodes.ndim = 2 /\ last.op = "to_symbolic") =>
                  /\ Returned(o)
                  /\ Len(o.value) = Len(nodes.rows)
                  /\ \A i \in 1..Len(nodes.rows) : Len(o.value[i]) = Len(nodes.rows[i])

C7_Witness ==
    /\ Available
    /\ last.op = "implicitize_surface"
    /\ input.nodes.ndim = 3
    /\ last.outcome.kind = "ValueError"
    /\ last.outcome.value[2] = 3

\* --------------------------------------------------- unchecked dimension (C9)

NumEntries(nodes) == Len(nodes.rows)

\* The call got through the polynomial assembly and failed at the unpacking,
\* before the implicitization proper was entered.
FailsAtUnpacking(o, assembly, elimination) ==
    /\ o.kind = "ValueError"
    /\ o.value[1] = "unpack"
    /\ \E n \in 1..Len(o.trace) : o.trace[n] = Leave(assembly)
    /\ \A n \in 1..Len(o.trace) : o.trace[n] # Enter(elimination)

TriangleSize(degree) == ((degree + 1) * (degree + 2)) \div 2

\* C9 as claimed: implicitize_curve on a rank-2 array whose number of rows is
\* not 2, and implicitize_surface on one whose number of rows is not 3, fails
\* at the unpacking, after the assembly has returned.
C9_Original ==
    (Available /\ last.op \in {"implicitize_curve", "implicitize_surface"}
               /\ last.args[1].ndim = 2) =>
        LET nodes == last.args[1]
        IN  /\ (last.op = "implicitize_curve" /\ NumEntries(nodes) # 2) =>
                  FailsAtUnpacking(last.outcome, "curve_as_polynomial", "implicitize_2d")
            /\ (last.op = "implicitize_surface" /\ NumEntries(nodes) # 3) =>
                  FailsAtUnpacking(last.outcome, "surface_as_polynomial", "implicitize_3d")

\* C9 as amended: the same, for the arrays whose number of columns is the
\* number of weights of the given degree (degree + 1 for a curve,
\* (degree + 1)(degree + 2)/2 for a surface); on any other array the call
\* fails earlier, in the matrix product of the assembly (ShapeError), and
\* on no array of the wrong number of rows does it return a polynomial.
C9_UnpackingFailure ==
    (Available /\ last.op \in {"implicitize_curve", "implicitize_surface"}
               /\ last.args[1].ndim = 2) =>
        LET nodes == last.args[1]
            degree == last.args[2]
            cols == Len(nodes.rows[1])
        IN  /\ (last.op = "implicitize_curve" /\ NumEntries(nodes) # 2) =>
                  /\ ~Returned(last.outcome)
                  /\ cols = degree + 1 =>
                        FailsAtUnpacking(last.outcome, "curve_as_polynomial", "implicitize_2d")
                  /\ cols # degree + 1 => last.outcome.kind = "ShapeError"
            /\ (last.op = "implicitize_surface" /\ NumEntries(nodes) # 3) =>
                  /\ ~Returned(last.outcome)
                  /\ cols = TriangleSize(degree) =>
                        FailsAtUnpacking(last.outcome, "surface_as_polynomial", "implicitize_3d")
                  /\ cols # TriangleSize(degree) => last.outcome.kind = "ShapeError"

C9_Witness ==
    /\ Available
    /\ last.op = "implicitize_curve"
    /\ input.nodes.ndim = 2
    /\ NumEntries(input.nodes) = 3
    /\ FailsAtUnpacking(last.outcome, "curve_as_polynomial", "implicitize_2d")

\* ----------------------------------------------------- composition law (C8)

\* `last` is implicitize_2d called on what curve_as_polynomial(nodes, degree)
\* returned for the caller's nodes and degree.
Chained == last.op = "implicitize_2d" /\ last.from = "curve_as_polynomial"

Composed == last.op = "implicitize_curve"

\* C8: implicitize_curve(nodes, degree) returns what the chain
\* curve_as_polynomial(nodes, degree), then implicitize_2d on its two
\* components and its symbol, returns, whichever of the two is called first;
\* and as the module keeps no state between calls (no call changes the module
\* global), calling an operation again on the same arguments has the same
\* outcome.
C8_CompositionLaw ==
    [][ /\ sympy' = sympy
        /\ (Chained /\ Composed') =>
              (Returned(last'.outcome) /\ last'.outcome.value = last.outcome.value)
        /\ (Composed /\ Chained') =>
              (Returned(last.outcome) /\ last'.outcome.value = last.outcome.value)
        /\ (last'.op = last.op /\ last'.args = last.args) =>
              last'.outcome = last.outcome ]_vars

C8_Witness ==
    /\ Chained
    /\ Returned(last.outcome)
    /\ input.degree = 2
    /\ DegreeIn(last.outcome.value, SymX) = 2
    /\ DegreeIn(last.outcome.value, SymY) = 2

\* ------------------------------------------------- basis weights (C4 - C6)

RECURSIVE Factorial(_)
Factorial(n) == IF n = 0 THEN 1 ELSE n * Factorial(n - 1)

\* The values the parameters are given: more of them than the largest degree,
\* so that polynomials of that degree agreeing on them are equal.
Samples == (0 - MaxDegree)..MaxDegree

\* The assignment of u to the symbol s and of v to the symbol t.
Assign(s, u, t, v) == [[MonoOne EXCEPT ![s] = u] EXCEPT ![t] = v]

\* p holds no symbol but those of syms, each to a power of at most degree.
PolynomialIn(p, syms, degree) ==
    \A m \in DOMAIN p :
        \A v \in 1..NSyms : IF v \in syms THEN m[v] <= degree ELSE m[v] = 0

Column(W) == [r \in 1..Len(W) |-> W[r][1]]

\* C4: curve_weights(degree, s) returns a column of exactly degree + 1
\* entries, entry k (k = 0..degree, in this order) being the polynomial
\* C(degree, k) * s^k * (1 - s)^(degree - k), and the entries sum to the
\* constant 1.
C4_CurveWeights ==
    (last.op = "curve_weights" /\ Available) =>
        LET degree == last.args[1]
            s == last.args[2]
            W == last.outcome.value
            C(n, k) == Factorial(n) \div (Factorial(k) * Factorial(n - k))
        IN  /\ Returned(last.outcome)
            /\ Len(W) = degree + 1
            /\ \A r \in 1..Len(W) : Len(W[r]) = 1
            /\ \A k \in 0..degree :
                  /\ PolynomialIn(W[k + 1][1], {s}, degree)
                  /\ \A u \in Samples :
                        Eval(W[k + 1][1], Assign(s, u, s, u))
                            = C(degree, k) * IntPow(u, k) * IntPow(1 - u, degree - k)
            /\ PSumSeq(Column(W)) = PConst(1)

C4_Witness ==
    /\ last.op = "curve_weights"
    /\ Returned(last.outcome)
    /\ input.degree = 2
    /\ Len(last.outcome.value) = 3

\* C5: surface_weights(degree, s, t) returns a column of exactly
\* (degree + 1)(degree + 2)/2 entries, which sum to the constant 1.
C5_SurfaceWeightsSum ==
    (last.op = "surface_weights" /\ Available) =>
        LET degree == last.args[1]
            W == last.outcome.value
        IN  /\ Returned(last.outcome)
            /\ Len(W) = ((degree + 1) * (degree + 2)) \div 2
            /\ \A r \in 1..Len(W) : Len(W[r]) = 1
            /\ PSumSeq(Column(W)) = PConst(1)

C5_Witness ==
    /\ last.op = "surface_weights"
    /\ Returned(last.outcome)
    /\ input.degree = 2
    /\ Len(last.outcome.value) = 6

\* The place of the index triple (degree - j - k, j, k) in the nested order,
\* k outermost: after the degree - k' + 1 entries of every k' < k.
RECURSIVE Place(_, _, _)
Place(degree, j, k) ==
    IF k = 0 THEN j + 1 ELSE (degree - (k - 1) + 1) + Place(degree, j, k - 1)

\* C6: surface_weights lists its entries in the nested order outer
\* k = 0..degree, inner j = 0..degree - k, with i = degree - j - k: every
\* index triple (i, j, k) of non-negative integers summing to degree has
\* exactly one place, the places fill the column, and the entry at the place
\* of (i, j, k) is degree!/(i! j! k!) * (1 - s - t)^i * s^j * t^k.
C6_SurfaceWeightsOrder ==
    (last.op = "surface_weights" /\ Available) =>
        LET degree == last.args[1]
            s == last.args[2]
            t == last.args[3]
            W == last.outcome.value
            Triples == {jk \in (0..degree) \X (0..degree) : jk[1] + jk[2] <= degree}
        IN  /\ Returned(last.outcome)
            /\ Len(W) = Cardinality(Triples)
            /\ {Place(degree, jk[1], jk[2]) : jk \in Triples} = 1..Len(W)
            /\ \A jk \in Triples :
                  LET j == jk[1]
                      k == jk[2]
                      i == degree - j - k
                      entry == W[Place(degree, j, k)][1]
                  IN  /\ PolynomialIn(entry, {s, t}, degree)
                      /\ \A u \in Samples, v \in Samples :
                            Eval(entry, Assign(s, u, t, v))
                                = (Factorial(degree)
                                      \div (Factorial(i) * Factorial(j) * Factorial(k)))
                                  * IntPow(1 - u - v, i) * IntPow(u, j) * IntPow(v, k)

C6_Witness ==
    /\ last.op = "surface_weights"
    /\ Returned(last.outcome)
    /\ input.degree = 3
    /\ Len(last.outcome.value) = 10
    /\ last.args[2] = SymT

\* ------------------------------------------------- implicitization (C2, C3)

\* f with x, y and z replaced by the polynomials x_fn, y_fn and z_fn.
OnTrace(f, x_fn, y_fn, z_fn) ==
    PSumSeq([n \in 1..Cardinality(DOMAIN f) |->
        LET Order(S) == CHOOSE q \in [1..Cardinality(S) -> S] :
                            \A a, b \in 1..Cardinality(S) : a # b => q[a] # q[b]
            m == Order(DOMAIN f)[n]
        IN  PScale(f[m],
                   PMul(PMul(PPow(PSym(SymS), m[SymS]), PPow(PSym(SymT), m[SymT])),
                        PMul(PPow(x_fn, m[SymX]),
                             PMul(PPow(y_fn, m[SymY]), PPow(z_fn, m[SymZ])))))])

\* f holds no parameter symbol.
Eliminated(f) == \A m \in DOMAIN f : m[SymS] = 0 /\ m[SymT] = 0

\* The implicit equation of the line through (0, 0) and (1, 2), y - 2x.
LineEquation == PSub(PSym(SymY), PScale(2, PSym(SymX)))

\* C3: for a 2-row node array of matching degree, constant coordinates
\* included, what implicitize_2d (on the components curve_as_polynomial
\* returned) and implicitize_curve return holds no s and vanishes on the
\* curve, f(x(s), y(s)) = 0; for the nodes [[0, 1], [0, 2]] of degree 1 it
\* is y - 2x times a non-zero constant.
C3_CurveImplicitization ==
    (Available /\ (Chained \/ Composed) /\ input.nodes.ndim = 2
               /\ Len(input.nodes.rows) = 2
               /\ Len(input.nodes.rows[1]) = input.degree + 1) =>
        LET f == last.outcome.value
            curve == Entries(curve_as_polynomial(input.nodes, input.degree).value[2])
        IN  /\ Returned(last.outcome)
            /\ Eliminated(f)
            /\ OnTrace(f, curve[1], curve[2], PZero) = PZero
            /\ input.nodes.rows = <<<<0, 1>>, <<0, 2>>>> =>
                  \E c \in {-1, 1} : f = PScale(c, LineEquation)

\* C2: for a 3-row node array of matching degree whose surface is not a
\* single point, what implicitize_3d (on the components
\* surface_as_polynomial returned) and implicitize_surface return holds no
\* parameter symbol and vanishes on the surface,
\* f(x(s, t), y(s, t), z(s, t)) = 0.
C2_SurfaceImplicitization ==
    (Available /\ input.nodes.ndim = 2 /\ Len(input.nodes.rows) = 3
               /\ Len(input.nodes.rows[1]) = TriangleSize(input.degree)
               /\ input.degree >= 1
               /\ \/ last.op = "implicitize_surface"
                  \/ last.op = "implicitize_3d" /\ last.from = "surface_as_polynomial") =>
        LET f == last.outcome.value
            surface == Entries(surface_as_polynomial(input.nodes, input.degree).value[3])
        IN  /\ Returned(last.outcome)
            /\ Eliminated(f)
            /\ OnTrace(f, surface[1], surface[2], surface[3]) = PZero

\* ------------------------------------------------- rewrite_package_rst.py

SPECIAL_MEMBERS == {"__author__", "__version__"}

UNDOCUMENTED_SPECIAL_MEMBERS == {"__author__"}

EXPECTED ==
    "bezier package\n==============\n\n.. automodule:: bezier\n   :members:\n"
    \o "   :inherited-members:\n   :undoc-members:\n   :show-inheritance:\n\n"
    \o "Subpackages\n-----------\n\n.. toctree::\n   :maxdepth: 4\n\n   bezier.hazmat\n\n"
    \o "Submodules\n----------\n\n.. toctree::\n   :maxdepth: 4\n\n"
    \o "   bezier.curve\n   bezier.curved_polygon\n   bezier.triangle\n"

\* DESIRED_TEMPLATE.format(members=members).
DESIRED_TEMPLATE(members) ==
    "bezier package\n==============\n\n.. automodule:: bezier" \o members \o "\n\n"
    \o "Submodules\n----------\n\n.. toctree::\n\n"
    \o "   bezier.curve\n   bezier.curved_polygon\n   bezier.triangle\n\n"
    \o "Subpackages\n-----------\n\n.. toctree::\n\n   bezier.hazmat\n"

\* name.startswith("_").
StartsWithUnderscore(name) == Len(name) >= 1 /\ SubSeq(name, 1, 1) = "_"

\* separator.join(names).
RECURSIVE Join(_, _)
Join(separator, names) ==
    IF Len(names) = 0 THEN ""
    ELSE IF Len(names) = 1 THEN names[1]
    ELSE names[1] \o separator \o Join(separator, Tail(names))

SeqToSet(q) == {q[n] : n \in 1..Len(q)}

\* The loop of get_public_members over dir(bezier), from entry n on: the
\* names that are neither private nor modules (all_members) and, of these,
\* the ones whose home is the base package (local_members).
RECURSIVE ScanMembers(_, _)
ScanMembers(attrs, n) ==
    IF n > Len(attrs) THEN [all_members |-> {}, local_members |-> <<>>]
    ELSE LET a == attrs[n]
             rest == ScanMembers(attrs, n + 1)
         IN  IF StartsWithUnderscore(a.name) /\ a.name \notin SPECIAL_MEMBERS THEN rest
             ELSE IF a.is_module THEN rest
             ELSE [all_members |-> {a.name} \cup rest.all_members,
                   local_members |-> IF a.home = "bezier"
                                     THEN <<a.name>> \o rest.local_members
                                     ELSE rest.local_members]

get_public_members ==
    IF ~bezier.imported THEN Return(<<>>, <<>>)
    ELSE LET scan == ScanMembers(bezier.dir, 1)
             size_all == Len(bezier.all)
             all_exports == SeqToSet(bezier.all)
         IN  IF Cardinality(all_exports) # size_all
             THEN Raise("ValueError", <<"__all__ has repeated elements">>, <<>>)
             ELSE IF all_exports # scan.all_members
             THEN Raise("ValueError",
                        <<"__all__ does not agree with the publicly imported members">>, <<>>)
             ELSE Return(SelectSeq(scan.local_members,
                                   LAMBDA member : member \notin UNDOCUMENTED_SPECIAL_MEMBERS),
                         <<>>)

get_desired ==
    LET public_members == get_public_members
    IN  IF ~Returned(public_members) THEN public_members
        ELSE Return(DESIRED_TEMPLATE(IF Len(public_members.value) # 0
                                     THEN "\n    :members: "
                                              \o Join(", ", public_members.value)
                                     ELSE ""), <<>>)

\* main() on a file holding contents: what the file holds afterwards, whether
\* it was written, and how the run ended.
Ran(contents, how, wrote) == [file |-> contents, kind |-> how, written |-> wrote]

\* A main() that rewrites whatever the file holds.
main_rewrites_anything(contents) ==
    LET desired == get_desired
    IN  IF ~Returned(desired) THEN Ran(contents, desired.kind, FALSE)
        ELSE IF contents # desired.value THEN Ran(desired.value, "return", TRUE)
        ELSE Ran(contents, "return", FALSE)

main(contents) ==
    LET desired == get_desired
    IN  IF ~Returned(desired) THEN Ran(contents, desired.kind, FALSE)
        ELSE IF contents = EXPECTED THEN Ran(desired.value, "return", TRUE)
        ELSE IF contents # desired.value THEN Ran(contents, "ValueError", FALSE)
        ELSE Ran(contents, "return", FALSE)

Main ==
    /\ file' = main(file).file
    /\ run' = [kind |-> main(file).kind, written |-> main(file).written]
    /\ UNCHANGED <<bezier, sympy, input, last>>

\* What dir(bezier) may list, in dir()'s sorted order: a class imported from
\* a submodule, the special strings, a private name, a submodule and a
\* function defined in the package itself.
Attribute(text, module, defined_in) ==
    [name |-> text, is_module |-> module, home |-> defined_in]

Attributes ==
    << Attribute("Curve", FALSE, "bezier.curve"),
       Attribute("__author__", FALSE, "bezier"),
       Attribute("__doc__", FALSE, "bezier"),
       Attribute("__version__", FALSE, "bezier"),
       Attribute("curve", TRUE, "bezier"),
       Attribute("get_include", FALSE, "bezier") >>

Exportable == <<"Curve", "__author__", "__version__", "get_include">>

Keep(q, S) == SelectSeq(q, LAMBDA e : e \in S)

\* The packages: some of the attributes, and an __all__ of some of the
\* exportable names, with or without its first name repeated at the end.
Packages ==
    { [imported |-> TRUE,
       dir |-> SelectSeq(Attributes, LAMBDA a : a.name \in present),
       all |-> Keep(Exportable, exported)
                  \o (IF again /\ exported # {}
                      THEN <<Keep(Exportable, exported)[1]>> ELSE <<>>)] :
        present \in SUBSET {Attributes[n].name : n \in 1..Len(Attributes)},
        exported \in SUBSET SeqToSet(Exportable),
        again \in BOOLEAN }

\* What the file may hold at first: the autogenerated page, rewritten pages,
\* an empty file and an edited page.
Files ==
    { EXPECTED, "", EXPECTED \o "\n",
      DESIRED_TEMPLATE(""),
      DESIRED_TEMPLATE("\n    :members: __version__"),
      DESIRED_TEMPLATE("\n    :members: get_include"),
      DESIRED_TEMPLATE("\n    :members: __version__, get_include") }

RewriteInit ==
    /\ bezier \in {NoPackage} \cup Packages
    /\ file \in Files
    /\ run = NoRun
    /\ sympy = "sympy"
    /\ input = [nodes |-> Array(0, <<>>), degree |-> 0]
    /\ last = NoCall

RewriteSpec == RewriteInit /\ [][Main]_vars

\* C10: main() is idempotent and never corrupts the file.  With the package
\* (and so its public members) fixed: on a file holding EXPECTED it writes the
\* desired contents; on a file holding the desired contents it writes nothing
\* and raises nothing; on any other file, and whenever get_public_members
\* raises, it raises ValueError and leaves the file as it was.  Hence once a
\* run has ended without raising, the file holds the desired contents and no
\* later run writes or raises.
C10_RewriteIdempotent ==
    [][ LET desired == get_desired
        IN  /\ bezier' = bezier
            /\ ~Returned(desired) =>
                  (run'.kind = "ValueError" /\ ~run'.written /\ file' = file)
            /\ (Returned(desired) /\ file = EXPECTED) =>
                  (run'.kind = "return" /\ run'.written /\ file' = desired.value)
            /\ (Returned(desired) /\ file # EXPECTED /\ file = desired.value) =>
                  (run'.kind = "return" /\ ~run'.written /\ file' = file)
            /\ (Returned(desired) /\ file # EXPECTED /\ file # desired.value) =>
                  (run'.kind = "ValueError" /\ ~run'.written /\ file' = file)
            /\ run.kind = "return" =>
                  (file = desired.value /\ run'.kind = "return" /\ ~run'.written
                                        /\ file' = file) ]_vars

C10_Witness ==
    /\ run.kind = "return"
    /\ ~run.written
    /\ bezier.imported
    /\ file = DESIRED_TEMPLATE("\n    :members: __version__, get_include")

====
